---- MODULE Spec2Model ----
(***************************************************************************)
(* A model of src/appRU.py: the request handlers of the web UI (chat,      *)
(* txt2img, img2img, inpaint, video, extras, audio), the process-wide      *)
(* stop flag and the other module globals, the output files the handlers   *)
(* write, and the settings and stop handlers.                              *)
(*                                                                         *)
(* Each handler is cut into steps at the places where it reads or writes   *)
(* state another handler can touch (stop_signal, the clock, the output     *)
(* files); what lies between two such places is local and is one step.     *)
(* A library call (a model constructor, an inference call, a file write)   *)
(* may succeed or raise: its outcome is an input of the step.              *)
(***************************************************************************)
EXTENDS Integers, Sequences, FiniteSets, TLC

\* ---------------------------------------------------------------- bounds

\* calls of request handlers started in one run of the process
MaxCalls == 2
\* the same, where every request is looked at by itself
MaxOnce == 1
\* seconds the wall clock advances in one run
MaxClock == 1
\* pixels of a mask image
MaskLen == 1

\* -------------------------------------------------------------- constants

Handlers == {"chat", "txt2img", "img2img", "inpaint", "video", "extras", "audio"}

\* the values np.uint8 pixels take, and the threshold of np.where (line 673)
MaxPixel == 255
Pixels == 0..MaxPixel

\* the messages the handlers return (the strings of the source)
MsgStopped == "Generation stopped"
MsgSelectLLM == "Please, select a LLM model!"
MsgEnterRequest == "Please, enter your request!"
MsgSelectVoice == "Please, select a voice and language for TTS!"
MsgIncompatTransformers == "The selected model is not compatible with the 'transformers' model type"
MsgIncompatLlama == "The selected model is not compatible with the 'llama' model type"
MsgSelectSD == "Please, select a StableDiffusion model!"
MsgSDNotFound == "StableDiffusion model not found: <path>"
MsgInvalidSDType == "Invalid StableDiffusion model type!"
MsgIncompatible == "The selected model is not compatible with the chosen model type"
MsgUploadInit == "Please, upload an initial image!"
MsgUploadInitMask == "Please, upload an initial image and a mask image!"
MsgEnableUpscale == "Please enable upscale to generate an image!"
MsgSelectAudioCraft == "Please, select an AudioCraft model!"
MsgMultiband == "Multiband Diffusion is not supported with 'audiogen' or 'magnet' model types. Please select 'musicgen' or disable Multiband Diffusion"
MsgMagnet == "The 'magnet' model type is currently not supported, but it will be available in a future update. Please select another model type for now"
MsgInvalidType == "Invalid model type!"
\* str(e) of an exception caught by img2img (line 584)
MsgStrOfError == "str(e)"

\* model names a request can select ("" is no selection)
SDNames == {"", "sd15"}
LLMNames == {"", "llm"}
AudioNames == {"", "musicgen-stereo-medium", "audiogen-medium"}
SDTypes == {"SD", "SD2", "SDXL", "other"}
LLMTypes == {"transformers", "llama", "other"}
AudioTypes == {"musicgen", "audiogen", "magnet", "other"}

\* a path of an output file: its kind (the file name's prefix and suffix) and
\* the second of its strftime('%Y%m%d_%H%M%S') stamp
NoPath == [kind |-> "None", t |-> 0]
OutPath(kind, t) == [kind |-> kind, t |-> t]

\* a value of a global that holds a model: None, the string a loader returns
\* when it sees the stop flag, a loaded model (with the call that loaded it),
\* or no binding at all (after "del" of the global name)
NoneVal == [kind |-> "None", by |-> 0]
Unbound == [kind |-> "unbound", by |-> 0]
StoppedStr == [kind |-> "str", by |-> 0]
Model(kind, by) == [kind |-> kind, by |-> by]

\* a value of audiocraft_model_path: None, the string load_audiocraft_model
\* returns when it sees the stop flag, or os.path.join("inputs", "audio",
\* "audiocraft", model_name)
NonePath == <<>>
StoppedPath == <<"Generation stopped">>
AudioPath(model_name) == <<"inputs", "audio", "audiocraft", model_name>>

VARIABLES
    stop_signal,            \* line 215
    chat_history,           \* line 217
    chat_dir,               \* line 44
    tts_model,              \* line 45
    whisper_model,          \* line 46
    audiocraft_model_path,  \* line 47
    share_mode,             \* line 889
    concurrency_limit,      \* how many requests the UI runs at a time
    max_calls,              \* how many requests the run serves in all
    call,                   \* per handler: the position and locals of its call in flight
    ncalls,                 \* calls started so far
    clock,                  \* datetime.now(), in seconds
    files,                  \* the output files on disk
    clobbered,              \* output files a later call wrote over
    mask,                   \* inpaint: the grayscale mask, np.array(mask_image)
    mask_array,             \* inpaint: the derived mask (lines 673, 675)
    mask_pc                 \* inpaint: how far the mask has been derived

vars == <<stop_signal, chat_history, chat_dir, tts_model, whisper_model,
          audiocraft_model_path, share_mode, concurrency_limit, max_calls, call, ncalls,
          clock, files, clobbered, mask, mask_array, mask_pc>>

globals == <<chat_history, chat_dir, tts_model, whisper_model, audiocraft_model_path,
             share_mode, concurrency_limit, max_calls>>
disk == <<files, clobbered>>
masks == <<mask, mask_array, mask_pc>>

\* ------------------------------------------------------------ call records

\* The record of a handler with no call in flight.  Of a call in flight it
\* holds the position (pc), the arguments read so far, the locals, and what
\* the call has done: msg and path are the returned pair, exc the exception
\* it ended with; loaded says a model handle was constructed, cleaned that
\* the cleanup step (del + torch.cuda.empty_cache()) ran, downloaded that a
\* model was fetched, madeDir that an output directory was created, wrote
\* the output files written; stopAt is where the call stood when stop was
\* first signalled during it ("none": it was not), stopPc the step it was
\* about to take then, flagReset that another request reset
\* the flag after that.  from is the path the audio model was constructed
\* from.  Of a chat call: prompt and text are the locals, llm says load_model
\* returned a model, lang is the tag langdetect gave, preamble is the
\* instruction chosen ("en": the English one, "ru": the Russian one), logged says the
\* turn was written to the transcript, entry is what the call appended to
\* chat_history; ret_len is the length of the returned tuple.  path0 is the
\* global audiocraft_model_path as the audio call found it.  missing says
\* the arguments lack a medium the handler needs, absent that the weights of
\* the selected model are not on the disk, fault the part of the generation
\* ("open", "infer", "save") in which a library call failed, under the
\* session directories the chat call wrote a transcript line or a TTS file in,
\* nload how often the call loaded its model, ninfer how often it called it,
\* spoke that the chat call called the TTS model.
Idle ==
    [pc |-> "idle", id |-> 0, model_name |-> "", model_type |-> "", opt |-> FALSE,
     media |-> "", pipeline |-> "", msg |-> "", path |-> NoPath, exc |-> "",
     loaded |-> FALSE, cleaned |-> FALSE, downloaded |-> FALSE, madeDir |-> FALSE,
     wrote |-> {}, stopAt |-> "none", flagReset |-> FALSE,
     from |-> <<>>, prompt |-> "", text |-> "None", llm |-> FALSE, preamble |-> "",
     logged |-> FALSE, entry |-> <<>>, ret_len |-> 0, path0 |-> <<>>, lang |-> "",
     stopPc |-> "", missing |-> FALSE, absent |-> FALSE, fault |-> "",
     under |-> {}, ninfer |-> 0, nload |-> 0,
     spoke |-> FALSE]

InFlight(d) == call[d].pc \notin {"idle", "done"}
Done(d) == call[d].pc = "done"

\* The UI takes a finished call's result at once: nothing else happens
\* between a handler's last step and Return.
Quiet == \A d \in Handlers : call[d].pc # "done"

\* return (path, msg)
Ret(c, path, msg) == [c EXCEPT !.pc = "done", !.path = path, !.msg = msg, !.ret_len = 2]
\* end by raising e
Raise(c, e) == [c EXCEPT !.pc = "done", !.exc = e]
\* the finally block: del <model>; torch.cuda.empty_cache()
Cleanup(c) == [c EXCEPT !.cleaned = TRUE]
\* a library call of the part named at has failed
Fault(c, at) == [c EXCEPT !.fault = at]

\* the call has loaded its model once more, has called it once more
Loads(c) == [c EXCEPT !.nload = @ + 1]
Infers(c) == [c EXCEPT !.ninfer = @ + 1]

\* what a library call does: it returns, or it raises
Outcomes == {"ok", "RuntimeError"}
\* what a model constructor does: it returns, it raises one of the errors the
\* handler takes for an incompatible model, or it raises something else
CtorOutcomes == {"ok", "ValueError", "RuntimeError"}


\* ------------------------------------------------------ the stop handlers

\* where a call in flight stands: before its inference call ("pre"), in it
\* ("infer"), or past the checkpoint that follows it ("post")
Phase(pc) ==
    IF pc = "infer" THEN "infer"
    ELSE IF pc \in {"upscale", "mbd", "save", "transcript", "tts"} THEN "post"
    ELSE "pre"

\* a call in flight notes where it stood when stop was first signalled
NoteStop(c) ==
    IF c.pc \notin {"idle", "done"} /\ c.stopAt = "none"
    THEN [c EXCEPT !.stopAt = Phase(c.pc), !.stopPc = c.pc] ELSE c

\* a call in flight notes that another request reset the flag after a stop
NoteReset(c) ==
    IF c.pc \notin {"idle", "done"} /\ c.stopAt # "none"
    THEN [c EXCEPT !.flagReset = TRUE] ELSE c

\* stop_all_processes(): the click handler of every tab's stop button
\* (queue=False: it runs while a request is in flight)
stop_all_processes ==
    /\ Quiet
    /\ stop_signal' = TRUE
    /\ call' = [d \in Handlers |-> NoteStop(call[d])]
    /\ UNCHANGED <<chat_history, chat_dir, tts_model, whisper_model,
                   audiocraft_model_path, concurrency_limit, max_calls, ncalls, clock, disk, masks>>

StopButton ==
    /\ stop_all_processes
    /\ UNCHANGED share_mode

\* settings_interface(share_value): sets share_mode, stops, relaunches the app
settings_interface ==
    /\ \E share_value \in {"True", "False"} : share_mode' = (share_value = "True")
    /\ stop_all_processes

\* ------------------------------------------------- entering and leaving

\* The UI's queue runs one call of a handler at a time, and
\* concurrency_limit calls in all.
MayStart(d) ==
    /\ Quiet
    /\ call[d].pc = "idle"
    /\ ncalls < max_calls
    /\ Cardinality({e \in Handlers : InFlight(e)}) < concurrency_limit

\* a handler that starts with "stop_signal = False" is entered: c is its
\* record after the first step
Enter(d, c) ==
    /\ MayStart(d)
    /\ ncalls' = ncalls + 1
    /\ stop_signal' = FALSE
    /\ call' = [e \in Handlers |->
                  IF e = d THEN c ELSE NoteReset(call[e])]

\* the step of handler d that takes its record to c
Step(d, c) == Quiet /\ call' = [call EXCEPT ![d] = c]

\* the result of a finished call is handed to the UI
Return ==
    \E d \in Handlers :
        /\ Done(d)
        /\ call' = [call EXCEPT ![d] = Idle]
        /\ UNCHANGED <<stop_signal, globals, ncalls, clock, disk, masks>>

\* a second passes
Tick ==
    /\ Quiet
    /\ clock < MaxClock
    /\ clock' = clock + 1
    /\ UNCHANGED <<stop_signal, globals, call, ncalls, disk, masks>>

\* an output file is written at path p
WriteFile(p) ==
    /\ files' = files \cup {p}
    /\ clobbered' = IF p \in files THEN clobbered \cup {p} ELSE clobbered

\* ------------------------------------------------------ load_upscale_model

\* load_upscale_model(upscale_factor) when the flag reads stop, the model
\* directory exists or not, and the constructor does ctor: the value it
\* returns (the pair (None, "Generation stopped"), or the pipeline), or the
\* exception it raises, and whether it cloned the model
load_upscale_model(upscale_factor, stop, exists, ctor) ==
    IF stop THEN [val |-> "tuple", exc |-> "", downloaded |-> FALSE]
    ELSE IF ctor # "ok" THEN [val |-> "", exc |-> ctor, downloaded |-> ~exists]
    ELSE [val |-> IF upscale_factor = 2 THEN "x2-upscaler" ELSE "x4-upscaler",
          exc |-> "", downloaded |-> ~exists]

\* ------------------------------------------------- generate_image_txt2img

\* lines 393-464: from the entry to the call of the pipeline
txt2img_entry(name, type, exists, ctor, setup, enable_upscale) ==
    LET c0 == [Idle EXCEPT !.model_name = name, !.absent = (name # "" /\ ~exists)] IN
    IF name = "" THEN Ret(c0, NoPath, MsgSelectSD)
    ELSE IF ~exists THEN Ret(c0, NoPath, MsgSDNotFound)
    ELSE LET c1 == [c0 EXCEPT !.model_type = type] IN
    IF type \notin {"SD", "SD2", "SDXL"} THEN Ret(c1, NoPath, MsgInvalidSDType)
    ELSE IF ctor = "ValueError" THEN Ret(Loads(c1), NoPath, MsgIncompatible)
    ELSE IF ctor # "ok" THEN Raise(Loads(c1), ctor)
    ELSE LET c2 == [Loads(c1) EXCEPT !.loaded = TRUE, !.opt = enable_upscale,
                              !.pipeline = IF type = "SDXL" THEN "StableDiffusionXLPipeline"
                                           ELSE "StableDiffusionPipeline"] IN
    \* device placement, VAE, LoRA: before the try of line 459
    IF setup # "ok" THEN Raise(c2, setup)
    ELSE [c2 EXCEPT !.pc = "infer"]

\* the records the entry can end with, over all arguments and library outcomes
txt2img_entries ==
    {txt2img_entry(name, type, exists, ctor, setup, enable_upscale) :
     name \in SDNames, type \in SDTypes, exists \in BOOLEAN,
     ctor \in CtorOutcomes, setup \in Outcomes, enable_upscale \in BOOLEAN}

generate_image_txt2img_Start ==
    /\ \E c \in txt2img_entries : Enter("txt2img", c)
    /\ UNCHANGED <<globals, clock, disk, masks>>

\* lines 460-469: the pipeline returns or raises; then the checkpoint
txt2img_checkpoint(c, stop, res) ==
    LET k == Infers(c) IN
    IF res # "ok" THEN Raise(Cleanup(Fault(k, "infer")), res)
    ELSE IF stop THEN Ret(Cleanup(k), NoPath, MsgStopped)
    ELSE IF k.opt THEN [k EXCEPT !.pc = "upscale"]
    ELSE [k EXCEPT !.pc = "save"]

generate_image_txt2img_Infer ==
    /\ call["txt2img"].pc = "infer"
    /\ \E res \in Outcomes : Step("txt2img", txt2img_checkpoint(call["txt2img"], stop_signal, res))
    /\ UNCHANGED <<stop_signal, globals, ncalls, clock, disk, masks>>

\* lines 470-477: the upscaler is loaded and called
txt2img_upscale(c, u, res) ==
    LET c1 == [c EXCEPT !.downloaded = @ \/ u.downloaded] IN
    IF u.exc # "" THEN Raise(Cleanup(c1), u.exc)
    \* "if upscaler:" holds of the pair too, and calling a pair raises
    ELSE IF u.val = "tuple" THEN Raise(Cleanup(c1), "TypeError")
    ELSE IF res # "ok" THEN Raise(Cleanup(c1), res)
    ELSE [c1 EXCEPT !.pc = "save"]

generate_image_txt2img_Upscale ==
    /\ call["txt2img"].pc = "upscale"
    /\ \E c \in {txt2img_upscale(call["txt2img"],
                                 load_upscale_model(IF upscale_factor = "x2" THEN 2 ELSE 4,
                                                    stop_signal, exists, ctor),
                                 res) :
                    upscale_factor \in {"x2", "x4"}, exists \in BOOLEAN,
                    ctor \in Outcomes, res \in Outcomes} :
          Step("txt2img", c)
    /\ UNCHANGED <<stop_signal, globals, ncalls, clock, disk, masks>>

\* a handler at its save step, becoming c, writes the file p unless the
\* write raises
Save(d, c, p, io) ==
    /\ Step(d, c)
    /\ IF io = "ok" THEN WriteFile(p) ELSE UNCHANGED disk
    /\ UNCHANGED <<stop_signal, globals, ncalls, clock, masks>>

\* lines 479-490: the image is saved and its path returned; finally
txt2img_save(c, p, io) ==
    LET c1 == [c EXCEPT !.madeDir = TRUE] IN
    IF io # "ok" THEN Raise(Cleanup(c1), io)
    ELSE Ret(Cleanup([c1 EXCEPT !.wrote = @ \cup {p}]), p, "")

generate_image_txt2img_Save ==
    /\ call["txt2img"].pc = "save"
    /\ \E io \in Outcomes :
          LET p == OutPath("txt2img.png", clock) IN
          Save("txt2img", txt2img_save(call["txt2img"], p, io), p, io)

\* ------------------------------------------------- generate_image_img2img

\* lines 498-569: from the entry to the call of the pipeline
img2img_entry(name, init_image, type, exists, ctor, setup, open) ==
    LET c0 == [Idle EXCEPT !.model_name = name, !.missing = ~init_image,
                           !.absent = (name # "" /\ init_image /\ ~exists)] IN
    IF name = "" THEN Ret(c0, NoPath, MsgSelectSD)
    ELSE IF ~init_image THEN Ret(c0, NoPath, MsgUploadInit)
    ELSE IF ~exists THEN Ret(c0, NoPath, MsgSDNotFound)
    ELSE LET c1 == [c0 EXCEPT !.model_type = type] IN
    IF type \notin {"SD", "SD2", "SDXL"} THEN Ret(c1, NoPath, MsgInvalidSDType)
    ELSE IF ctor = "ValueError" THEN Ret(Loads(c1), NoPath, MsgIncompatible)
    ELSE IF ctor # "ok" THEN Raise(Loads(c1), ctor)
    ELSE LET c2 == [Loads(c1) EXCEPT !.loaded = TRUE,
                              !.pipeline = IF type = "SD2" THEN "StableDiffusionPipeline"
                                           ELSE "StableDiffusionImg2ImgPipeline"] IN
    \* device placement, VAE: before the try of line 562
    IF setup # "ok" THEN Raise(c2, setup)
    \* Image.open, preprocess: inside it, under "except Exception"
    ELSE IF open # "ok" THEN Ret(Cleanup(Fault(c2, "open")), NoPath, MsgStrOfError)
    ELSE [c2 EXCEPT !.pc = "infer"]

\* the records the entry can end with, over all arguments and library outcomes
img2img_entries ==
    {img2img_entry(name, init_image, type, exists, ctor, setup, open) :
     name \in SDNames, init_image \in BOOLEAN, type \in SDTypes,
     exists \in BOOLEAN, ctor \in CtorOutcomes, setup \in Outcomes,
     open \in Outcomes}

generate_image_img2img_Start ==
    /\ \E c \in img2img_entries : Enter("img2img", c)
    /\ UNCHANGED <<globals, clock, disk, masks>>

\* a variant of the step without the "except Exception" of line 583
img2img_checkpoint_uncaught(c, stop, res) ==
    LET k == Infers(c) IN
    IF res # "ok" THEN Raise(Cleanup(Fault(k, "infer")), res)
    ELSE IF stop THEN Ret(Cleanup(k), NoPath, MsgStopped)
    ELSE [k EXCEPT !.pc = "save"]

\* lines 566-572 and 583-588: the pipeline returns or raises; the checkpoint
img2img_checkpoint(c, stop, res) ==
    LET k == Infers(c) IN
    IF res # "ok" THEN Ret(Cleanup(Fault(k, "infer")), NoPath, MsgStrOfError)
    ELSE IF stop THEN Ret(Cleanup(k), NoPath, MsgStopped)
    ELSE [k EXCEPT !.pc = "save"]

generate_image_img2img_Infer ==
    /\ call["img2img"].pc = "infer"
    /\ \E res \in Outcomes : Step("img2img", img2img_checkpoint(call["img2img"], stop_signal, res))
    /\ UNCHANGED <<stop_signal, globals, ncalls, clock, disk, masks>>

\* lines 574-588
img2img_save(c, p, io) ==
    LET c1 == [c EXCEPT !.madeDir = TRUE] IN
    IF io # "ok" THEN Ret(Cleanup(Fault(c1, "save")), NoPath, MsgStrOfError)
    ELSE Ret(Cleanup([c1 EXCEPT !.wrote = @ \cup {p}]), p, "")

generate_image_img2img_Save ==
    /\ call["img2img"].pc = "save"
    /\ \E io \in Outcomes :
          LET p == OutPath("img2img.png", clock) IN
          Save("img2img", img2img_save(call["img2img"], p, io), p, io)

\* ------------------------------------------------- generate_image_inpaint

\* what the mask_image argument can be: nothing, the editor's dict with its
\* 'composite' file, a dict without one, a file path, anything else
MaskArgs == {"None", "dict", "dict-no-composite", "str", "other"}

\* lines 594-680: from the entry to the call of the pipeline
inpaint_entry(name, init_image, mask_image, type, exists, ctor, setup, open) ==
    LET c0 == [Idle EXCEPT !.model_name = name,
                           !.missing = ~init_image \/ mask_image = "None",
                           !.absent = (/\ name # ""
                                       /\ init_image /\ mask_image # "None"
                                       /\ ~exists)] IN
    IF name = "" THEN Ret(c0, NoPath, MsgSelectSD)
    ELSE IF ~init_image \/ mask_image = "None" THEN Ret(c0, NoPath, MsgUploadInitMask)
    ELSE IF ~exists THEN Ret(c0, NoPath, MsgSDNotFound)
    ELSE LET c1 == [c0 EXCEPT !.model_type = type] IN
    IF type \notin {"SD", "SD2", "SDXL"} THEN Ret(c1, NoPath, MsgInvalidSDType)
    ELSE IF ctor = "ValueError" THEN Ret(Loads(c1), NoPath, MsgIncompatible)
    ELSE IF ctor # "ok" THEN Raise(Loads(c1), ctor)
    ELSE LET c2 == [Loads(c1) EXCEPT !.loaded = TRUE, !.pipeline = "StableDiffusionInpaintPipeline"] IN
    \* device placement, VAE: before the try of line 658
    IF setup # "ok" THEN Raise(c2, setup)
    ELSE IF mask_image \in {"dict-no-composite", "other"} THEN Raise(Cleanup(c2), "ValueError")
    ELSE IF open # "ok" THEN Raise(Cleanup(c2), open)
    ELSE [c2 EXCEPT !.pc = "infer", !.media = mask_image]

\* the records the entry can end with, over all arguments and library outcomes
inpaint_entries ==
    {inpaint_entry(name, init_image, mask_image, type, exists, ctor, setup, open) :
     name \in SDNames, init_image \in BOOLEAN, mask_image \in MaskArgs,
     type \in SDTypes, exists \in BOOLEAN, ctor \in CtorOutcomes,
     setup \in Outcomes, open \in Outcomes}

generate_image_inpaint_Start ==
    /\ \E c \in inpaint_entries : Enter("inpaint", c)
    /\ UNCHANGED <<globals, clock, disk, masks>>

\* lines 677-684
inpaint_checkpoint(c, stop, res) ==
    LET k == Infers(c) IN
    IF res # "ok" THEN Raise(Cleanup(Fault(k, "infer")), res)
    ELSE IF stop THEN Ret(Cleanup(k), NoPath, MsgStopped)
    ELSE [k EXCEPT !.pc = "save"]

generate_image_inpaint_Infer ==
    /\ call["inpaint"].pc = "infer"
    /\ \E res \in Outcomes : Step("inpaint", inpaint_checkpoint(call["inpaint"], stop_signal, res))
    /\ UNCHANGED <<stop_signal, globals, ncalls, clock, disk, masks>>

\* lines 686-697
inpaint_save(c, p, io) ==
    LET c1 == [c EXCEPT !.madeDir = TRUE] IN
    IF io # "ok" THEN Raise(Cleanup(c1), io)
    ELSE Ret(Cleanup([c1 EXCEPT !.wrote = @ \cup {p}]), p, "")

generate_image_inpaint_Save ==
    /\ call["inpaint"].pc = "save"
    /\ \E io \in Outcomes :
          LET p == OutPath("inpaint.png", clock) IN
          Save("inpaint", inpaint_save(call["inpaint"], p, io), p, io)

\* --------------------------------------------------------- generate_video

\* lines 701-728: from the entry to the call of the pipeline
video_entry(init_image, exists, clone, ctor, open) ==
    LET c0 == [Idle EXCEPT !.downloaded = ~exists, !.missing = ~init_image] IN
    IF ~exists /\ clone # "ok" THEN Raise(c0, clone)
    \* finally: "del pipe" raises UnboundLocalError, which is passed over
    ELSE IF ctor # "ok" THEN Raise(Cleanup(Loads(c0)), ctor)
    ELSE LET c1 == [Loads(c0) EXCEPT !.loaded = TRUE,
                                     !.pipeline = "StableVideoDiffusionPipeline"] IN
    \* load_image(None) raises
    IF ~init_image THEN Raise(Cleanup(c1), "ValueError")
    ELSE IF open # "ok" THEN Raise(Cleanup(c1), open)
    ELSE [c1 EXCEPT !.pc = "infer"]

\* the records the entry can end with, over all arguments and library outcomes
video_entries ==
    {video_entry(init_image, exists, clone, ctor, open) :
     init_image \in BOOLEAN, exists \in BOOLEAN, clone \in Outcomes,
     ctor \in CtorOutcomes, open \in Outcomes}

generate_video_Start ==
    /\ \E c \in video_entries : Enter("video", c)
    /\ UNCHANGED <<globals, clock, disk, masks>>

\* lines 727-731
video_checkpoint(c, stop, res) ==
    LET k == Infers(c) IN
    IF res # "ok" THEN Raise(Cleanup(Fault(k, "infer")), res)
    ELSE IF stop THEN Ret(Cleanup(k), NoPath, MsgStopped)
    ELSE [k EXCEPT !.pc = "save"]

generate_video_Infer ==
    /\ call["video"].pc = "infer"
    /\ \E res \in Outcomes : Step("video", video_checkpoint(call["video"], stop_signal, res))
    /\ UNCHANGED <<stop_signal, globals, ncalls, clock, disk, masks>>

\* lines 733-747
video_save(c, p, io) ==
    LET c1 == [c EXCEPT !.madeDir = TRUE] IN
    IF io # "ok" THEN Raise(Cleanup(c1), io)
    ELSE Ret(Cleanup([c1 EXCEPT !.wrote = @ \cup {p}]), p, "")

generate_video_Save ==
    /\ call["video"].pc = "save"
    /\ \E io \in Outcomes :
          LET p == OutPath("video.mp4", clock) IN
          Save("video", video_save(call["video"], p, io), p, io)

\* -------------------------------------------------- generate_image_extras

\* lines 751-759: the entry; the flag is read, not reset
extras_entry(stop, enable_upscale, image_path) ==
    IF stop THEN Ret(Idle, NoPath, MsgStopped)
    ELSE IF ~enable_upscale THEN Ret(Idle, NoPath, MsgEnableUpscale)
    ELSE IF ~image_path THEN Ret(Idle, NoPath, MsgUploadInit)
    ELSE [Idle EXCEPT !.pc = "upscale", !.opt = enable_upscale]

generate_image_extras_Start ==
    /\ MayStart("extras")
    /\ ncalls' = ncalls + 1
    /\ \E c \in {extras_entry(stop_signal, enable_upscale, image_path) :
                    enable_upscale \in BOOLEAN, image_path \in BOOLEAN} :
          Step("extras", c)
    /\ UNCHANGED <<stop_signal, globals, clock, disk, masks>>

\* lines 761-765: the upscaler is loaded and called
extras_upscale(c, u, open, res) ==
    LET c1 == Loads([c EXCEPT !.downloaded = u.downloaded]) IN
    IF u.exc # "" THEN Raise(c1, u.exc)
    \* "if upscaler:" holds of the pair (None, "Generation stopped") too
    ELSE IF open # "ok" THEN Raise([c1 EXCEPT !.loaded = (u.val # "tuple")], open)
    ELSE IF u.val = "tuple" THEN Raise(c1, "TypeError")
    ELSE IF res # "ok" THEN Raise(Infers([c1 EXCEPT !.loaded = TRUE]), res)
    ELSE Infers([c1 EXCEPT !.loaded = TRUE, !.pipeline = u.val, !.pc = "save"])

generate_image_extras_Upscale ==
    /\ call["extras"].pc = "upscale"
    /\ \E c \in {extras_upscale(call["extras"],
                                load_upscale_model(2, stop_signal, exists, ctor), open, res) :
                    exists \in BOOLEAN, ctor \in Outcomes, open \in Outcomes,
                    res \in Outcomes} :
          Step("extras", c)
    /\ UNCHANGED <<stop_signal, globals, ncalls, clock, disk, masks>>

\* lines 767-774: no finally here
extras_save(c, p, io) ==
    LET c1 == [c EXCEPT !.madeDir = TRUE] IN
    IF io # "ok" THEN Raise(c1, io)
    ELSE Ret([c1 EXCEPT !.wrote = @ \cup {p}], p, "")

generate_image_extras_Save ==
    /\ call["extras"].pc = "save"
    /\ \E io \in Outcomes :
          LET p == OutPath("extras.png", clock) IN
          Save("extras", extras_save(call["extras"], p, io), p, io)

\* --------------------------------------------------------- generate_audio

\* variants of the entry of generate_audio: the magnet test made first; the
\* Multiband test without "audiogen"; os.makedirs made before the tests
audio_entry_magnet_first(model_name, model_type, enable_multiband) ==
    LET c0 == [Idle EXCEPT !.model_name = model_name, !.model_type = model_type,
                           !.opt = enable_multiband] IN
    IF model_type = "magnet" THEN Ret(c0, NoPath, MsgMagnet)
    ELSE IF model_name = "" THEN Ret(c0, NoPath, MsgSelectAudioCraft)
    ELSE IF enable_multiband /\ model_type \in {"audiogen", "magnet"}
         THEN Ret(c0, NoPath, MsgMultiband)
    ELSE [c0 EXCEPT !.pc = "load"]

audio_entry_without_audiogen(model_name, model_type, enable_multiband) ==
    LET c0 == [Idle EXCEPT !.model_name = model_name, !.model_type = model_type,
                           !.opt = enable_multiband] IN
    IF model_name = "" THEN Ret(c0, NoPath, MsgSelectAudioCraft)
    ELSE IF enable_multiband /\ model_type \in {"magnet"}
         THEN Ret(c0, NoPath, MsgMultiband)
    ELSE IF model_type = "magnet" THEN Ret(c0, NoPath, MsgMagnet)
    ELSE [c0 EXCEPT !.pc = "load"]

audio_entry_makedirs_first(model_name, model_type, enable_multiband) ==
    LET c0 == [Idle EXCEPT !.model_name = model_name, !.model_type = model_type,
                           !.opt = enable_multiband, !.madeDir = TRUE] IN
    IF model_name = "" THEN Ret(c0, NoPath, MsgSelectAudioCraft)
    ELSE IF enable_multiband /\ model_type \in {"audiogen", "magnet"}
         THEN Ret(c0, NoPath, MsgMultiband)
    ELSE IF model_type = "magnet" THEN Ret(c0, NoPath, MsgMagnet)
    ELSE [c0 EXCEPT !.pc = "load"]

\* lines 782-794: the entry of generate_audio
audio_entry(model_name, model_type, enable_multiband) ==
    LET c0 == [Idle EXCEPT !.model_name = model_name, !.model_type = model_type,
                           !.opt = enable_multiband] IN
    IF model_name = "" THEN Ret(c0, NoPath, MsgSelectAudioCraft)
    ELSE IF enable_multiband /\ model_type \in {"audiogen", "magnet"}
         THEN Ret(c0, NoPath, MsgMultiband)
    ELSE IF model_type = "magnet" THEN Ret(c0, NoPath, MsgMagnet)
    ELSE [c0 EXCEPT !.pc = "load"]

audio_entries ==
    {audio_entry(model_name, model_type, enable_multiband) :
     model_name \in AudioNames, model_type \in AudioTypes, enable_multiband \in BOOLEAN}

generate_audio_Start ==
    /\ \E c \in audio_entries : Enter("audio", [c EXCEPT !.path0 = audiocraft_model_path])
    /\ UNCHANGED <<globals, clock, disk, masks>>

\* load_audiocraft_model(model_name), lines 128-150: the value returned, the
\* global after it, whether the model was cloned, the exception raised
load_audiocraft_model(model_name, path, stop, exists, clone) ==
    IF stop THEN [val |-> StoppedPath, path |-> path, downloaded |-> FALSE, exc |-> ""]
    ELSE IF ~exists /\ clone # "ok"
    THEN [val |-> NonePath, path |-> AudioPath(model_name), downloaded |-> FALSE, exc |-> clone]
    ELSE [val |-> AudioPath(model_name), path |-> AudioPath(model_name),
          downloaded |-> ~exists, exc |-> ""]

\* lines 796-821: the model path, the output directory, the model, the
\* multiband model; path is the global audiocraft_model_path on entry, bad
\* what a constructor raises that is given no model directory.  The result
\* is the call's record c and the global path.
audio_load(c, path, stop, exists, clone, ctor, bad, mbd) ==
    LET l == IF path = NonePath
             THEN load_audiocraft_model(c.model_name, path, stop, exists, clone)
             ELSE [val |-> path, path |-> path, downloaded |-> FALSE, exc |-> ""]
        c1 == [c EXCEPT !.downloaded = l.downloaded]
    IN
    IF l.exc # "" THEN [c |-> Raise(c1, l.exc), path |-> l.path]
    ELSE LET p == l.val
             c2 == [c1 EXCEPT !.madeDir = TRUE]
             made == IF p = StoppedPath THEN bad ELSE ctor
         IN
         [path |-> p,
          c |-> IF c.model_type \notin {"musicgen", "audiogen"}
                THEN Ret(c2, NoPath, MsgInvalidType)
                ELSE IF made = "ValueError" THEN Ret(Loads(c2), NoPath, MsgIncompatible)
                ELSE IF made # "ok" THEN Raise(Loads(c2), made)
                ELSE LET c3 == [Loads(c2) EXCEPT !.loaded = TRUE, !.from = p] IN
                \* MultiBandDiffusion.get_mbd_musicgen(): before the try of line 823
                IF c.opt /\ mbd # "ok" THEN Raise(c3, mbd)
                ELSE [c3 EXCEPT !.pc = "infer"]]

generate_audio_Load ==
    /\ call["audio"].pc = "load"
    /\ \E r \in {audio_load(call["audio"], audiocraft_model_path, stop_signal,
                            exists, clone, ctor, bad, mbd) :
                    exists \in BOOLEAN, clone \in Outcomes, ctor \in CtorOutcomes,
                    bad \in CtorOutcomes \ {"ok"}, mbd \in Outcomes} :
          /\ Step("audio", r.c)
          /\ audiocraft_model_path' = r.path
    /\ UNCHANGED <<stop_signal, chat_history, chat_dir, tts_model, whisper_model,
                   share_mode, concurrency_limit, max_calls, ncalls, clock, disk, masks>>

\* a variant of the step that calls the model again after a first failure
audio_checkpoint_retry(c, stop, res) ==
    LET k == Infers(c) IN
    IF res # "ok" /\ c.ninfer = 0 THEN k
    ELSE IF res # "ok" THEN Raise(Cleanup(Fault(k, "infer")), res)
    ELSE IF stop THEN Ret(Cleanup(k), NoPath, MsgStopped)
    ELSE IF k.opt THEN [k EXCEPT !.pc = "mbd"]
    ELSE [k EXCEPT !.pc = "save"]

\* lines 823-848: the model generates; then the checkpoint
audio_checkpoint(c, stop, res) ==
    LET k == Infers(c) IN
    IF res # "ok" THEN Raise(Cleanup(Fault(k, "infer")), res)
    ELSE IF stop THEN Ret(Cleanup(k), NoPath, MsgStopped)
    ELSE IF k.opt THEN [k EXCEPT !.pc = "mbd"]
    ELSE [k EXCEPT !.pc = "save"]

generate_audio_Infer ==
    /\ call["audio"].pc = "infer"
    /\ \E res \in Outcomes : Step("audio", audio_checkpoint(call["audio"], stop_signal, res))
    /\ UNCHANGED <<stop_signal, globals, ncalls, clock, disk, masks>>

\* lines 848-862: the multiband pass and its file
audio_multiband(c, stop, res, p, io) ==
    IF stop THEN Ret(Cleanup(c), NoPath, MsgStopped)
    ELSE IF res # "ok" THEN Raise(Cleanup(c), res)
    ELSE IF io # "ok" THEN Raise(Cleanup(c), io)
    ELSE [c EXCEPT !.wrote = @ \cup {p}, !.pc = "save"]

generate_audio_Multiband ==
    /\ call["audio"].pc = "mbd"
    /\ \E res \in Outcomes, io \in Outcomes :
          LET p == OutPath("audio_diffusion.wav", clock)
              c == audio_multiband(call["audio"], stop_signal, res, p, io) IN
          /\ Step("audio", c)
          /\ IF p \in c.wrote THEN WriteFile(p) ELSE UNCHANGED disk
    /\ UNCHANGED <<stop_signal, globals, ncalls, clock, masks>>

\* lines 864-874
audio_save(c, p, io) ==
    IF io # "ok" THEN Raise(Cleanup(c), io)
    ELSE Ret(Cleanup([c EXCEPT !.wrote = @ \cup {p}]), p, "")

generate_audio_Save ==
    /\ call["audio"].pc = "save"
    /\ \E io \in Outcomes :
          LET p == OutPath("audio.wav", clock) IN
          Save("audio", audio_save(call["audio"], p, io), p, io)

\* ----------------------------------------------- generate_text_and_speech

\* what a constructor of load_model does
LLMCtorOutcomes == {"ok", "OSError", "ValueError", "RuntimeError"}
\* what langdetect.detect(prompt) does: a language tag, or it raises
DetectOutcomes == {"en", "ru", "de", "LangDetectException"}
\* what the model generates
Replies == {"", "reply"}

\* chat_history.append([prompt, response]); return a tuple of len elements
\* whose message is msg and whose audio path is path
ChatRet(c, prompt, response, len, msg, path) ==
    [c EXCEPT !.pc = "done", !.entry = <<[prompt |-> prompt, response |-> response]>>,
              !.ret_len = len, !.msg = msg, !.path = path]

\* a chat call with the two model globals as it sees them
Bundle(c, tts, whisper) == [c |-> c, tts |-> tts, whisper |-> whisper]

\* "del tts_model" of a name declared global removes the global
Del(g) == IF g # NoneVal THEN Unbound ELSE g

\* a finally block that frees the memory and leaves the two globals bound
chat_finally_keep(b) == Bundle(Cleanup(b.c), b.tts, b.whisper)

\* lines 374-383: the finally block of generate_text_and_speech
chat_finally(b) == Bundle(Cleanup(b.c), Del(b.tts), Del(b.whisper))

\* where the try block goes after the TTS model, after the Whisper model
AfterWhisper(c) == IF c.llm THEN "infer" ELSE "transcript"
AfterTTS(c) == IF c.media = "audio" THEN "load_whisper" ELSE AfterWhisper(c)

\* lines 224-231: the entry
chat_entry(input_text, input_audio, name, type, enable_tts) ==
    LET c0 == [Idle EXCEPT !.model_name = name] IN
    IF input_text = "" /\ ~input_audio
    THEN ChatRet([c0 EXCEPT !.missing = TRUE], MsgEnterRequest, "None", 5,
                 MsgEnterRequest, NoPath)
    ELSE LET c1 == [c0 EXCEPT !.model_type = type, !.opt = enable_tts,
                              !.media = IF input_audio THEN "audio" ELSE "text"] IN
    IF input_audio THEN [c1 EXCEPT !.pc = "transcribe"]
    ELSE IF name = "" THEN ChatRet(c0, "None", MsgSelectLLM, 5, MsgSelectLLM, NoPath)
    ELSE [c1 EXCEPT !.pc = "load_model", !.prompt = input_text]

chat_entries ==
    {chat_entry(input_text, input_audio, name, type, enable_tts) :
     input_text \in {"", "hello"}, input_audio \in BOOLEAN, name \in LLMNames,
     type \in LLMTypes, enable_tts \in BOOLEAN}

generate_text_and_speech_Start ==
    /\ \E c \in chat_entries :
          /\ Enter("chat", [c EXCEPT !.id = ncalls + 1])
          /\ chat_history' = chat_history \o c.entry
    /\ UNCHANGED <<chat_dir, tts_model, whisper_model, audiocraft_model_path,
                   share_mode, concurrency_limit, max_calls, clock, disk, masks>>

\* transcribe_audio(audio_file_path), lines 80-95: the text returned or the
\* exception raised, whether the model was fetched, whether it was loaded
transcribe_audio(stop, exists, fetch, ctor, res) ==
    IF stop THEN [text |-> MsgStopped, exc |-> "", downloaded |-> FALSE, loaded |-> FALSE]
    ELSE IF ~exists /\ fetch # "ok"
    THEN [text |-> "", exc |-> fetch, downloaded |-> FALSE, loaded |-> FALSE]
    ELSE IF ctor # "ok"
    THEN [text |-> "", exc |-> ctor, downloaded |-> ~exists, loaded |-> FALSE]
    ELSE IF res # "ok"
    THEN [text |-> "", exc |-> res, downloaded |-> ~exists, loaded |-> TRUE]
    ELSE [text |-> "spoken", exc |-> "", downloaded |-> ~exists, loaded |-> TRUE]

\* lines 228-231: the prompt of a recorded request, then the model name
chat_transcribe(c, t) ==
    LET c1 == [c EXCEPT !.downloaded = t.downloaded, !.loaded = t.loaded] IN
    IF t.exc # "" THEN Raise(c1, t.exc)
    ELSE IF c.model_name = "" THEN ChatRet(c1, "None", MsgSelectLLM, 5, MsgSelectLLM, NoPath)
    ELSE [c1 EXCEPT !.pc = "load_model", !.prompt = t.text]

generate_text_and_speech_Transcribe ==
    /\ call["chat"].pc = "transcribe"
    /\ \E c \in {chat_transcribe(call["chat"], transcribe_audio(stop_signal, exists, fetch, ctor, res)) :
                    exists \in BOOLEAN, fetch \in Outcomes, ctor \in Outcomes, res \in Outcomes} :
          /\ Step("chat", c)
          /\ chat_history' = chat_history \o c.entry
    /\ UNCHANGED <<stop_signal, chat_dir, tts_model, whisper_model, audiocraft_model_path,
                   share_mode, concurrency_limit, max_calls, ncalls, clock, disk, masks>>

\* a variant of load_model whose 'transformers' branch lets OSError pass
load_model_oserror_passes(model_name, model_type, stop, ctor) ==
    IF stop THEN [model |-> FALSE, error |-> MsgStopped, exc |-> ""]
    ELSE IF model_name # "" /\ model_type = "transformers"
    THEN IF ctor = "ok" THEN [model |-> TRUE, error |-> "", exc |-> ""]
         ELSE IF ctor \in {"RuntimeError"}
         THEN [model |-> FALSE, error |-> MsgIncompatTransformers, exc |-> ""]
         ELSE [model |-> FALSE, error |-> "", exc |-> ctor]
    ELSE IF model_name # "" /\ model_type = "llama"
    THEN IF ctor = "ok" THEN [model |-> TRUE, error |-> "", exc |-> ""]
         ELSE IF ctor \in {"ValueError", "RuntimeError"}
         THEN [model |-> FALSE, error |-> MsgIncompatLlama, exc |-> ""]
         ELSE [model |-> FALSE, error |-> "", exc |-> ctor]
    ELSE [model |-> FALSE, error |-> "", exc |-> ""]

\* what the constructor of line 58 or line 71 does with the model path: a
\* path that does not exist makes from_pretrained raise OSError and Llama
\* raise ValueError
LLMCtor(model_type, exists, ctor) ==
    IF exists THEN ctor
    ELSE IF model_type = "transformers" THEN "OSError" ELSE "ValueError"

\* load_model(model_name, model_type), lines 50-77: whether a model is
\* returned, the error message returned, the exception raised
load_model(model_name, model_type, stop, ctor) ==
    IF stop THEN [model |-> FALSE, error |-> MsgStopped, exc |-> ""]
    ELSE IF model_name # "" /\ model_type = "transformers"
    THEN IF ctor = "ok" THEN [model |-> TRUE, error |-> "", exc |-> ""]
         ELSE IF ctor \in {"OSError", "RuntimeError"}
         THEN [model |-> FALSE, error |-> MsgIncompatTransformers, exc |-> ""]
         ELSE [model |-> FALSE, error |-> "", exc |-> ctor]
    ELSE IF model_name # "" /\ model_type = "llama"
    THEN IF ctor = "ok" THEN [model |-> TRUE, error |-> "", exc |-> ""]
         ELSE IF ctor \in {"ValueError", "RuntimeError"}
         THEN [model |-> FALSE, error |-> MsgIncompatLlama, exc |-> ""]
         ELSE [model |-> FALSE, error |-> "", exc |-> ctor]
    ELSE [model |-> FALSE, error |-> "", exc |-> ""]

\* lines 232-243: the model is loaded, the two globals are set to None
chat_load_model(b, m, absent) ==
    LET c0 == Loads([b.c EXCEPT !.absent = absent]) IN
    IF m.exc # "" THEN Bundle(Raise(c0, m.exc), b.tts, b.whisper)
    ELSE IF m.error # ""
    THEN Bundle(ChatRet(c0, "None", m.error, 5, m.error, NoPath), b.tts, b.whisper)
    ELSE LET c1 == [c0 EXCEPT !.loaded = @ \/ m.model, !.llm = m.model] IN
         Bundle([c1 EXCEPT !.pc = IF c1.opt THEN "load_tts" ELSE AfterTTS(c1)], NoneVal, NoneVal)

\* a step of the chat handler to the bundle b
ChatStep(b) ==
    /\ Step("chat", b.c)
    /\ chat_history' = chat_history \o b.c.entry
    /\ tts_model' = b.tts
    /\ whisper_model' = b.whisper

Here == Bundle(call["chat"], tts_model, whisper_model)

generate_text_and_speech_LoadModel ==
    /\ call["chat"].pc = "load_model"
    /\ \E b \in {chat_load_model(Here,
                                    load_model(call["chat"].model_name, call["chat"].model_type,
                                               stop_signal,
                                               LLMCtor(call["chat"].model_type, exists, ctor)),
                                    /\ ~exists
                                    /\ ~stop_signal
                                    /\ call["chat"].model_type \in {"transformers", "llama"}) :
                    exists \in BOOLEAN, ctor \in LLMCtorOutcomes} :
          ChatStep(b)
    /\ UNCHANGED <<stop_signal, chat_dir, audiocraft_model_path, share_mode,
                   concurrency_limit, max_calls, ncalls, clock, disk, masks>>

\* load_tts_model(), lines 98-108, and load_whisper_model(), lines 111-125:
\* the value returned (the string "Generation stopped", or the model), or
\* the exception raised
load_tts_model(stop, exists, clone, ctor) ==
    IF stop THEN [val |-> "str", exc |-> "", downloaded |-> FALSE]
    ELSE IF ~exists /\ clone # "ok" THEN [val |-> "", exc |-> clone, downloaded |-> FALSE]
    ELSE IF ctor # "ok" THEN [val |-> "", exc |-> ctor, downloaded |-> ~exists]
    ELSE [val |-> "TTS", exc |-> "", downloaded |-> ~exists]

load_whisper_model(stop, exists, fetch, ctor) ==
    IF stop THEN [val |-> "str", exc |-> "", downloaded |-> FALSE]
    ELSE IF ~exists /\ fetch # "ok" THEN [val |-> "", exc |-> fetch, downloaded |-> FALSE]
    ELSE IF ctor # "ok" THEN [val |-> "", exc |-> ctor, downloaded |-> ~exists]
    ELSE [val |-> "Whisper", exc |-> "", downloaded |-> ~exists]

\* the value of a global assigned what a loader returned
Loaded(l, id) == IF l.val = "str" THEN StoppedStr ELSE Model(l.val, id)

\* lines 243-250: the TTS model, the voice and language, the device
chat_load_tts(b, l, voice, to) ==
    LET c1 == [b.c EXCEPT !.downloaded = @ \/ l.downloaded] IN
    IF l.exc # "" THEN chat_finally(Bundle(Raise(c1, l.exc), b.tts, b.whisper))
    ELSE LET g == Loaded(l, c1.id)
             c2 == [c1 EXCEPT !.loaded = @ \/ (l.val # "str")] IN
    IF ~voice
    THEN chat_finally(Bundle(ChatRet([c2 EXCEPT !.missing = TRUE], "None", MsgSelectVoice,
                                     5, MsgSelectVoice, NoPath),
                             g, b.whisper))
    \* a string has no method "to"
    ELSE IF g = StoppedStr THEN chat_finally(Bundle(Raise(c2, "AttributeError"), g, b.whisper))
    ELSE IF to # "ok" THEN chat_finally(Bundle(Raise(c2, to), g, b.whisper))
    ELSE Bundle([c2 EXCEPT !.pc = AfterTTS(c2)], g, b.whisper)

generate_text_and_speech_LoadTTS ==
    /\ call["chat"].pc = "load_tts"
    /\ \E b \in {chat_load_tts(Here, load_tts_model(stop_signal, exists, clone, ctor), voice, to) :
                    exists \in BOOLEAN, clone \in Outcomes, ctor \in Outcomes,
                    voice \in BOOLEAN, to \in Outcomes} :
          ChatStep(b)
    /\ UNCHANGED <<stop_signal, chat_dir, audiocraft_model_path, share_mode,
                   concurrency_limit, max_calls, ncalls, clock, disk, masks>>

\* lines 251-255: the Whisper model, the device
chat_load_whisper(b, l, to) ==
    LET c1 == [b.c EXCEPT !.downloaded = @ \/ l.downloaded] IN
    IF l.exc # "" THEN chat_finally(Bundle(Raise(c1, l.exc), b.tts, b.whisper))
    ELSE LET g == Loaded(l, c1.id)
             c2 == [c1 EXCEPT !.loaded = @ \/ (l.val # "str")] IN
    IF g = StoppedStr THEN chat_finally(Bundle(Raise(c2, "AttributeError"), b.tts, g))
    ELSE IF to # "ok" THEN chat_finally(Bundle(Raise(c2, to), b.tts, g))
    ELSE Bundle([c2 EXCEPT !.pc = AfterWhisper(c2)], b.tts, g)

generate_text_and_speech_LoadWhisper ==
    /\ call["chat"].pc = "load_whisper"
    /\ \E b \in {chat_load_whisper(Here, load_whisper_model(stop_signal, exists, fetch, ctor), to) :
                    exists \in BOOLEAN, fetch \in Outcomes, ctor \in Outcomes, to \in Outcomes} :
          ChatStep(b)
    /\ UNCHANGED <<stop_signal, chat_dir, audiocraft_model_path, share_mode,
                   concurrency_limit, max_calls, ncalls, clock, disk, masks>>

\* a variant of the choice that tests for the Russian tag
bot_instruction_if_ru(detect_lang) == IF detect_lang = "ru" THEN "ru" ELSE "en"

\* lines 258-262 and 303-307: the instruction put before the prompt
bot_instruction(detect_lang) == IF detect_lang = "en" THEN "en" ELSE "ru"

\* lines 256-334: the language, the instruction, the model's reply, the
\* checkpoint (the same in the 'transformers' and the 'llama' branch)
chat_infer(b, stop, lang, res, reply) ==
    IF lang = "LangDetectException" THEN chat_finally(Bundle(Raise(b.c, lang), b.tts, b.whisper))
    ELSE LET c1 == Infers([b.c EXCEPT !.lang = lang, !.preamble = bot_instruction(lang)]) IN
    IF res # "ok" THEN chat_finally(Bundle(Raise(Fault(c1, "infer"), res), b.tts, b.whisper))
    ELSE IF stop
    THEN chat_finally(Bundle(ChatRet(c1, c1.prompt, MsgStopped, 4, MsgStopped, NoPath),
                             b.tts, b.whisper))
    ELSE Bundle([c1 EXCEPT !.text = reply, !.pc = "transcript"], b.tts, b.whisper)

generate_text_and_speech_Infer ==
    /\ call["chat"].pc = "infer"
    /\ \E b \in {chat_infer(Here, stop_signal, lang, res, reply) :
                    lang \in DetectOutcomes, res \in Outcomes, reply \in Replies} :
          ChatStep(b)
    /\ UNCHANGED <<stop_signal, chat_dir, audiocraft_model_path, share_mode,
                   concurrency_limit, max_calls, ncalls, clock, disk, masks>>

\* the directory of a chat session created at second t
LLMDir(t) == [kind |-> "LLM", t |-> t]

\* a variant that names a new session directory in every turn
chat_transcript_new_dir(b, dir, now, stop, mk, io) ==
    LET d1 == LLMDir(now)
        c0 == [b.c EXCEPT !.madeDir = (dir = NoPath /\ mk = "ok")]
        out(x) == [c |-> x.c, tts |-> x.tts, whisper |-> x.whisper, dir |-> d1]
    IN
    IF dir = NoPath /\ mk # "ok" THEN out(chat_finally(Bundle(Raise(c0, mk), b.tts, b.whisper)))
    ELSE IF io # "ok" THEN out(chat_finally(Bundle(Raise(c0, io), b.tts, b.whisper)))
    ELSE LET c1 == [c0 EXCEPT !.logged = TRUE, !.under = @ \cup {d1}] IN
    IF c1.opt /\ c1.text \notin {"None", ""}
    THEN IF stop
         THEN out(chat_finally(Bundle(ChatRet(c1, c1.prompt, c1.text, 5, MsgStopped, NoPath),
                                      b.tts, b.whisper)))
         ELSE out(Bundle([c1 EXCEPT !.pc = "tts"], b.tts, b.whisper))
    ELSE LET f == chat_finally(Bundle(c1, b.tts, b.whisper)) IN
         out(Bundle(ChatRet(f.c, c1.prompt, c1.text, 5, "", NoPath), f.tts, f.whisper))

\* a variant of the step that reads the flag before it writes the transcript
chat_transcript_stop_first(b, dir, now, stop, mk, io) ==
    LET d1 == IF dir = NoPath THEN LLMDir(now) ELSE dir
        c0 == [b.c EXCEPT !.madeDir = (dir = NoPath /\ mk = "ok")]
        out(x) == [c |-> x.c, tts |-> x.tts, whisper |-> x.whisper, dir |-> d1]
    IN
    IF dir = NoPath /\ mk # "ok" THEN out(chat_finally(Bundle(Raise(c0, mk), b.tts, b.whisper)))
    ELSE IF stop /\ c0.opt /\ c0.text \notin {"None", ""}
    THEN out(chat_finally(Bundle(ChatRet(c0, c0.prompt, c0.text, 5, MsgStopped, NoPath),
                                 b.tts, b.whisper)))
    ELSE IF io # "ok" THEN out(chat_finally(Bundle(Raise(c0, io), b.tts, b.whisper)))
    ELSE LET c1 == [c0 EXCEPT !.logged = TRUE, !.under = @ \cup {d1}] IN
    IF c1.opt /\ c1.text \notin {"None", ""}
    THEN out(Bundle([c1 EXCEPT !.pc = "tts"], b.tts, b.whisper))
    ELSE LET f == chat_finally(Bundle(c1, b.tts, b.whisper)) IN
         out(Bundle(ChatRet(f.c, c1.prompt, c1.text, 5, "", NoPath), f.tts, f.whisper))

\* lines 336-351 and 385-386: the session directory, the transcript, the
\* checkpoint before speech; dir is the global chat_dir on entry, the
\* result holds it as the step leaves it
chat_transcript(b, dir, now, stop, mk, io) ==
    LET d1 == IF dir = NoPath THEN LLMDir(now) ELSE dir
        c0 == [b.c EXCEPT !.madeDir = (dir = NoPath /\ mk = "ok")]
        out(x) == [c |-> x.c, tts |-> x.tts, whisper |-> x.whisper, dir |-> d1]
    IN
    IF dir = NoPath /\ mk # "ok" THEN out(chat_finally(Bundle(Raise(c0, mk), b.tts, b.whisper)))
    ELSE IF io # "ok" THEN out(chat_finally(Bundle(Raise(c0, io), b.tts, b.whisper)))
    ELSE LET c1 == [c0 EXCEPT !.logged = TRUE, !.under = @ \cup {d1}] IN
    IF c1.opt /\ c1.text \notin {"None", ""}
    THEN IF stop
         THEN out(chat_finally(Bundle(ChatRet(c1, c1.prompt, c1.text, 5, MsgStopped, NoPath),
                                      b.tts, b.whisper)))
         ELSE out(Bundle([c1 EXCEPT !.pc = "tts"], b.tts, b.whisper))
    ELSE LET f == chat_finally(Bundle(c1, b.tts, b.whisper)) IN
         out(Bundle(ChatRet(f.c, c1.prompt, c1.text, 5, "", NoPath), f.tts, f.whisper))

generate_text_and_speech_Transcript ==
    /\ call["chat"].pc = "transcript"
    /\ \E r \in {chat_transcript(Here, chat_dir, clock, stop_signal, mk, io) :
                    mk \in Outcomes, io \in Outcomes} :
          /\ ChatStep(r)
          /\ chat_dir' = r.dir
    /\ UNCHANGED <<stop_signal, audiocraft_model_path, share_mode, concurrency_limit, max_calls,
                   ncalls, clock, disk, masks>>

\* a variant of the step that appends the turn before the speech is written
chat_tts_append_first(b, dir, p, res, io) ==
    LET turn == <<[prompt |-> b.c.prompt, response |-> b.c.text]>>
        c == [b.c EXCEPT !.spoke = TRUE]
    IN
    IF res # "ok" THEN chat_finally(Bundle(Raise(c, res), b.tts, b.whisper))
    ELSE IF io # "ok"
    THEN chat_finally(Bundle([Raise(c, io) EXCEPT !.entry = turn], b.tts, b.whisper))
    ELSE LET f == chat_finally(Bundle([c EXCEPT !.wrote = @ \cup {p},
                                                !.under = @ \cup {dir}],
                                      b.tts, b.whisper)) IN
         Bundle(ChatRet(f.c, f.c.prompt, f.c.text, 5, "", p), f.tts, f.whisper)

\* lines 352-386: the speech, its file, the return
chat_tts(b, dir, p, res, io) ==
    LET c == [b.c EXCEPT !.spoke = TRUE] IN
    IF res # "ok" THEN chat_finally(Bundle(Raise(c, res), b.tts, b.whisper))
    ELSE IF io # "ok" THEN chat_finally(Bundle(Raise(c, io), b.tts, b.whisper))
    ELSE LET f == chat_finally(Bundle([c EXCEPT !.wrote = @ \cup {p},
                                                !.under = @ \cup {dir}],
                                      b.tts, b.whisper)) IN
         Bundle(ChatRet(f.c, f.c.prompt, f.c.text, 5, "", p), f.tts, f.whisper)

generate_text_and_speech_TTS ==
    /\ call["chat"].pc = "tts"
    /\ \E res \in Outcomes, io \in Outcomes :
          LET p == OutPath("TTS.wav", clock)
              b == chat_tts(Here, chat_dir, p, res, io) IN
          /\ ChatStep(b)
          /\ IF p \in b.c.wrote THEN WriteFile(p) ELSE UNCHANGED disk
    /\ UNCHANGED <<stop_signal, chat_dir, audiocraft_model_path, share_mode,
                   concurrency_limit, max_calls, ncalls, clock, masks>>

\* ------------------------------------------- the mask of generate_image_inpaint

\* a threshold at the middle of the range
binarize_half(v) == IF 2 * v < MaxPixel THEN 0 ELSE MaxPixel

\* np.where(mask_array < 255, 0, 255), line 673, of one pixel
binarize(v) == IF v < MaxPixel THEN 0 ELSE MaxPixel

\* line 673: the grayscale mask is made binary
inpaint_binarize ==
    /\ mask_pc = "L"
    /\ mask_array' = [i \in 1..Len(mask) |-> binarize(mask[i])]
    /\ mask_pc' = "where"
    /\ UNCHANGED <<stop_signal, globals, call, ncalls, clock, disk, mask>>

\* the pixel of an m-pixel row that Image.NEAREST takes for pixel i of n
Nearest(i, n, m) == (((2 * (i - 1) + 1) * m) \div (2 * n)) + 1

\* line 675: the binary mask is resized to the size of the initial image
inpaint_resize ==
    /\ mask_pc = "where"
    /\ \E n \in 1..(MaskLen + 1) :
          mask_array' = [i \in 1..n |-> mask_array[Nearest(i, n, Len(mask_array))]]
    /\ mask_pc' = "resized"
    /\ UNCHANGED <<stop_signal, globals, call, ncalls, clock, disk, mask>>

\* ------------------------------------------------------------ the process

Init ==
    /\ stop_signal = FALSE
    /\ chat_history = <<>>
    /\ chat_dir = NoPath
    /\ tts_model = NoneVal
    /\ whisper_model = NoneVal
    /\ audiocraft_model_path = NonePath
    /\ share_mode = FALSE
    /\ concurrency_limit = 1
    /\ max_calls = MaxCalls
    /\ call = [d \in Handlers |-> Idle]
    /\ ncalls = 0
    /\ clock = 0
    /\ files = {}
    /\ clobbered = {}
    /\ mask = <<>>
    /\ mask_array = <<>>
    /\ mask_pc = "none"

Next ==
    \/ StopButton
    \/ settings_interface
    \/ Return
    \/ Tick
    \/ generate_image_txt2img_Start
    \/ generate_image_txt2img_Infer
    \/ generate_image_txt2img_Upscale
    \/ generate_image_txt2img_Save
    \/ generate_image_img2img_Start
    \/ generate_image_img2img_Infer
    \/ generate_image_img2img_Save
    \/ generate_image_inpaint_Start
    \/ generate_image_inpaint_Infer
    \/ generate_image_inpaint_Save
    \/ generate_video_Start
    \/ generate_video_Infer
    \/ generate_video_Save
    \/ generate_image_extras_Start
    \/ generate_image_extras_Upscale
    \/ generate_image_extras_Save
    \/ generate_audio_Start
    \/ generate_audio_Load
    \/ generate_audio_Infer
    \/ generate_audio_Multiband
    \/ generate_audio_Save
    \/ generate_text_and_speech_Start
    \/ generate_text_and_speech_Transcribe
    \/ generate_text_and_speech_LoadModel
    \/ generate_text_and_speech_LoadTTS
    \/ generate_text_and_speech_LoadWhisper
    \/ generate_text_and_speech_Infer
    \/ generate_text_and_speech_Transcript
    \/ generate_text_and_speech_TTS

Spec == Init /\ [][Next]_vars

\* the same interface, serving MaxOnce requests
InitOnce ==
    /\ stop_signal = FALSE
    /\ chat_history = <<>>
    /\ chat_dir = NoPath
    /\ tts_model = NoneVal
    /\ whisper_model = NoneVal
    /\ audiocraft_model_path = NonePath
    /\ share_mode = FALSE
    /\ concurrency_limit = 1
    /\ max_calls = MaxOnce
    /\ call = [d \in Handlers |-> Idle]
    /\ ncalls = 0
    /\ clock = 0
    /\ files = {}
    /\ clobbered = {}
    /\ mask = <<>>
    /\ mask_array = <<>>
    /\ mask_pc = "none"

SpecOnce == InitOnce /\ [][Next]_vars

\* the chat tab alone, with the stop button and the clock
NextChat ==
    \/ StopButton
    \/ Return
    \/ Tick
    \/ generate_text_and_speech_Start
    \/ generate_text_and_speech_Transcribe
    \/ generate_text_and_speech_LoadModel
    \/ generate_text_and_speech_LoadTTS
    \/ generate_text_and_speech_LoadWhisper
    \/ generate_text_and_speech_Infer
    \/ generate_text_and_speech_Transcript
    \/ generate_text_and_speech_TTS

SpecChat == Init /\ [][NextChat]_vars

\* the AudioCraft tab alone, with the stop button, the settings tab and the clock
NextAudio ==
    \/ StopButton
    \/ settings_interface
    \/ Return
    \/ Tick
    \/ generate_audio_Start
    \/ generate_audio_Load
    \/ generate_audio_Infer
    \/ generate_audio_Multiband
    \/ generate_audio_Save

SpecAudio == Init /\ [][NextAudio]_vars

\* the mask of one inpaint call, over every grayscale mask of MaskLen pixels
InitMask ==
    /\ stop_signal = FALSE
    /\ chat_history = <<>>
    /\ chat_dir = NoPath
    /\ tts_model = NoneVal
    /\ whisper_model = NoneVal
    /\ audiocraft_model_path = NonePath
    /\ share_mode = FALSE
    /\ concurrency_limit = 1
    /\ max_calls = MaxCalls
    /\ call = [d \in Handlers |-> Idle]
    /\ ncalls = 0
    /\ clock = 0
    /\ files = {}
    /\ clobbered = {}
    /\ mask \in [1..MaskLen -> Pixels]
    /\ mask_array = <<>>
    /\ mask_pc = "L"

NextMask ==
    \/ inpaint_binarize
    \/ inpaint_resize

SpecMask == InitMask /\ [][NextMask]_vars

\* the txt2img tab and the AudioCraft tab, served side by side: no queue is
\* set up before app.launch, and the tabs are separate interfaces, so a
\* request of one tab runs while a request of the other is in flight
InitOverlap ==
    /\ stop_signal = FALSE
    /\ chat_history = <<>>
    /\ chat_dir = NoPath
    /\ tts_model = NoneVal
    /\ whisper_model = NoneVal
    /\ audiocraft_model_path = NonePath
    /\ share_mode = FALSE
    /\ concurrency_limit = 2
    /\ max_calls = MaxCalls
    /\ call = [d \in Handlers |-> Idle]
    /\ ncalls = 0
    /\ clock = 0
    /\ files = {}
    /\ clobbered = {}
    /\ mask = <<>>
    /\ mask_array = <<>>
    /\ mask_pc = "none"

NextOverlap ==
    \/ StopButton
    \/ Return
    \/ Tick
    \/ generate_image_txt2img_Start
    \/ generate_image_txt2img_Infer
    \/ generate_image_txt2img_Upscale
    \/ generate_image_txt2img_Save
    \/ generate_audio_Start
    \/ generate_audio_Load
    \/ generate_audio_Infer
    \/ generate_audio_Multiband
    \/ generate_audio_Save

SpecOverlap == InitOverlap /\ [][NextOverlap]_vars

\* ------------------------------------------------------------- the properties

\* the message each dispatcher returns when no model is selected
SelectMsg(d) ==
    IF d = "chat" THEN MsgSelectLLM
    ELSE IF d = "audio" THEN MsgSelectAudioCraft
    ELSE MsgSelectSD

\* the messages with which a dispatcher refuses its arguments
ValidationMsgs ==
    {MsgSelectLLM, MsgEnterRequest, MsgSelectVoice, MsgSelectSD, MsgSDNotFound,
     MsgInvalidSDType, MsgUploadInit, MsgUploadInitMask, MsgEnableUpscale,
     MsgSelectAudioCraft, MsgMultiband, MsgMagnet, MsgInvalidType}

\* the exceptions a library call raises of its own
LibraryFaults == {"RuntimeError", "ValueError", "OSError", "LangDetectException"}

\* C1: every call that ends with "Generation stopped" was stopped by a signal
\* given after the call began: each dispatcher, generate_image_extras included,
\* clears the stop flag on entry, so a stop given before the call has no effect
C1_StopBeforeCallHasNoEffect ==
    \A d \in Handlers :
        Done(d) /\ call[d].msg = MsgStopped => call[d].stopAt # "none"

\* C2: a call of a dispatcher other than generate_image_extras, whose arguments
\* are accepted and whose library calls all succeed, that is stopped after it
\* began and before its checkpoint after inference, with no later request
\* clearing the flag, ends by returning "Generation stopped", raises nothing
\* and writes no output file
C2_StopBeforeCheckpointReturnsStopped ==
    \A d \in Handlers \ {"extras"} :
        (/\ Done(d)
         /\ call[d].stopAt \in {"pre", "infer"}
         /\ ~call[d].flagReset
         /\ call[d].exc \notin LibraryFaults
         /\ call[d].msg \notin ValidationMsgs \cup {MsgStrOfError})
        => (call[d].exc = "" /\ call[d].msg = MsgStopped /\ call[d].wrote = {})

\* C3: a call with no model selected (and, for the chat, with some input) that
\* raises nothing returns the "select a model" message of its dispatcher and
\* has loaded no model, downloaded nothing and written no file
C3_MissingModelLoadsNothing ==
    \A d \in {"chat", "txt2img", "img2img", "inpaint", "audio"} :
        (/\ Done(d)
         /\ call[d].model_name = ""
         /\ call[d].exc = ""
         /\ call[d].msg # MsgEnterRequest)
        => (/\ call[d].msg = SelectMsg(d)
            /\ ~call[d].loaded
            /\ ~call[d].downloaded
            /\ ~call[d].madeDir
            /\ call[d].wrote = {})

\* C4: no output file is ever written over a file an earlier write produced
C4_OutputPathsAreUnique == clobbered = {}

\* C5: a call that built or loaded a model has run its cleanup (del of the
\* handles, torch.cuda.empty_cache) by the time it ends, whichever way it ends
C5_CleanupOnEveryExit ==
    \A d \in Handlers : Done(d) /\ call[d].loaded => call[d].cleaned

\* C6: the globals tts_model and whisper_model hold a model only while the chat
\* call that loaded it is running: once a call has ended, and between
\* requests, neither global gives access to a model handle
C6_NoHandleBetweenRequests ==
    \A g \in {tts_model, whisper_model} :
        g \notin {NoneVal, Unbound}
        => InFlight("chat") /\ g.by = call["chat"].id

\* a chat call that loaded a TTS model and spoke the answer has ended
C6_SpokenCallEnded ==
    /\ Done("chat")
    /\ call["chat"].loaded
    /\ call["chat"].path.kind = "TTS.wav"
    /\ tts_model = Unbound

\* C7 as stated: a call with model_type "magnet" always returns the magnet message
C7_MagnetAlwaysRejected ==
    Done("audio") /\ call["audio"].model_type = "magnet"
    => call["audio"].msg = MsgMagnet

\* C7: a call with model_type "magnet" returns no audio and raises nothing: it
\* returns the "select a model" message when no model is selected, else the
\* Multiband message when enable_multiband is set, else the magnet message
C7_MagnetRejectedInOrder ==
    Done("audio") /\ call["audio"].model_type = "magnet"
    => /\ call["audio"].exc = ""
       /\ call["audio"].path = NoPath
       /\ call["audio"].msg =
              IF call["audio"].model_name = "" THEN MsgSelectAudioCraft
              ELSE IF call["audio"].opt THEN MsgMultiband
              ELSE MsgMagnet

\* a magnet call with a model selected has been answered with the magnet message
C7_MagnetAnswered ==
    /\ Done("audio")
    /\ call["audio"].model_type = "magnet"
    /\ call["audio"].model_name # ""
    /\ call["audio"].msg = MsgMagnet

\* C8 as stated: enable_multiband with model_type "audiogen" always returns the
\* Multiband message, an empty model name included
C8_MultibandAudiogenAlwaysRejected ==
    Done("audio") /\ call["audio"].opt /\ call["audio"].model_type = "audiogen"
    => call["audio"].msg = MsgMultiband

\* C8: enable_multiband with model_type "audiogen" returns no audio and raises
\* nothing: it returns the Multiband message when a model is selected and the
\* "select a model" message when none is
C8_MultibandAudiogenRejected ==
    Done("audio") /\ call["audio"].opt /\ call["audio"].model_type = "audiogen"
    => /\ call["audio"].exc = ""
       /\ call["audio"].path = NoPath
       /\ call["audio"].msg =
              IF call["audio"].model_name = "" THEN MsgSelectAudioCraft
              ELSE MsgMultiband

\* an audiogen call with Multiband Diffusion has been answered with the message
C8_MultibandAnswered ==
    /\ Done("audio")
    /\ call["audio"].opt
    /\ call["audio"].model_type = "audiogen"
    /\ call["audio"].model_name = "audiogen-medium"
    /\ call["audio"].msg = MsgMultiband

\* C9: a call refused for its configuration (the Multiband or the magnet
\* message) has loaded no model, downloaded nothing, created no directory,
\* written no file and left the global audiocraft_model_path as it found it
C9_RejectedBeforeAnySideEffect ==
    Done("audio") /\ call["audio"].msg \in {MsgMultiband, MsgMagnet}
    => /\ ~call["audio"].loaded
       /\ ~call["audio"].downloaded
       /\ ~call["audio"].madeDir
       /\ call["audio"].wrote = {}
       /\ call["audio"].from = <<>>
       /\ audiocraft_model_path = call["audio"].path0

\* a call is refused for its configuration after an earlier call set the path
C9_RejectedAfterEarlierLoad ==
    /\ Done("audio")
    /\ call["audio"].msg = MsgMultiband
    /\ audiocraft_model_path = AudioPath("musicgen-stereo-medium")

\* C10: the mask handed to the pipeline holds only 0 and 255, and after line
\* 673 a pixel is 255 exactly when the grayscale pixel was 255, every other
\* grayscale value giving 0
C10_MaskIsBinary ==
    /\ mask_pc \in {"where", "resized"}
       => \A i \in 1..Len(mask_array) : mask_array[i] \in {0, MaxPixel}
    /\ mask_pc = "where"
       => /\ Len(mask_array) = Len(mask)
          /\ \A i \in 1..Len(mask) :
                mask_array[i] = (IF mask[i] = MaxPixel THEN MaxPixel ELSE 0)

\* a nearly white pixel has been turned black
C10_NearWhiteIsBlack ==
    /\ mask_pc = "where"
    /\ mask[1] = MaxPixel - 1
    /\ mask_array[1] = 0

\* C11: in a chat call of either model type the instruction put before the
\* prompt is the English one when langdetect gave "en" and the Russian one for
\* every other tag; a call that generated text used exactly one of the two, and
\* none is chosen without a detected tag
C11_PreambleFollowsLanguage ==
    LET c == call["chat"] IN
    /\ c.lang # ""
       => /\ c.llm
          /\ c.model_type \in {"transformers", "llama"}
          /\ c.preamble = (IF c.lang = "en" THEN "en" ELSE "ru")
    /\ c.preamble # "" => c.lang # ""
    /\ c.text # "None" => c.preamble \in {"en", "ru"}

\* a llama call whose prompt was detected as German got the Russian instruction
C11_GermanGetsRussian ==
    /\ Done("chat")
    /\ call["chat"].model_type = "llama"
    /\ call["chat"].lang = "de"
    /\ call["chat"].preamble = "ru"
    /\ call["chat"].text = "reply"

\* C12: a txt2img call with enable_upscale, or an audio call with
\* enable_multiband, that is stopped when it is about to take its post-process
\* step (the flag not being cleared by a later request) returns "Generation
\* stopped", raises nothing and writes no file
C12_StopAtPostProcessReturnsStopped ==
    \A d \in {"txt2img", "audio"} :
        (/\ Done(d)
         /\ call[d].stopPc \in {"upscale", "mbd"}
         /\ ~call[d].flagReset
         /\ call[d].exc \notin LibraryFaults)
        => (/\ call[d].exc = ""
            /\ call[d].msg = MsgStopped
            /\ call[d].path = NoPath
            /\ call[d].wrote = {})

\* C13: a call whose arguments lack a required medium (text and audio in chat,
\* the initial image in img2img and video, the initial image or the mask in
\* inpaint, the voice or the language in chat with TTS) ends with a message
\* for the user, raises nothing, and has loaded and downloaded no model
C13_MissingMediaAnsweredAtOnce ==
    \A d \in {"chat", "img2img", "inpaint", "video"} :
        Done(d) /\ call[d].missing
        => (/\ call[d].exc = ""
            /\ call[d].msg \in ValidationMsgs
            /\ ~call[d].loaded
            /\ ~call[d].downloaded)

IncompatMsgs == {MsgIncompatTransformers, MsgIncompatLlama, MsgIncompatible}

\* C15: the "not compatible with the model type" message is returned only
\* when the weights do not fit the chosen type: never by a call whose model
\* path is not on the disk
C15_IncompatibleOnlyForMismatch ==
    \A d \in Handlers :
        Done(d) /\ call[d].msg \in IncompatMsgs => ~call[d].absent

\* C16: in img2img a library failure while the initial image is opened, during
\* the inference call or while the result is saved is returned as (None, the
\* text of the error), nothing is raised and the cleanup has run; in chat,
\* txt2img, inpaint, video and audio a failure of the inference call leaves
\* the call as an exception and nothing is returned
C16_OnlyImg2ImgCatches ==
    /\ call["img2img"].fault # ""
       => /\ Done("img2img")
          /\ call["img2img"].fault \in {"open", "infer", "save"}
          /\ call["img2img"].exc = ""
          /\ call["img2img"].msg = MsgStrOfError
          /\ call["img2img"].path = NoPath
          /\ call["img2img"].ret_len = 2
          /\ call["img2img"].cleaned
    /\ call["img2img"].msg = MsgStrOfError => call["img2img"].fault # ""
    /\ \A d \in {"chat", "txt2img", "inpaint", "video", "audio"} :
          call[d].fault # ""
          => /\ Done(d)
             /\ call[d].fault = "infer"
             /\ call[d].exc \in LibraryFaults
             /\ call[d].msg = ""
             /\ call[d].ret_len = 0

\* the inference call of an img2img request failed and the error was returned
C16_Img2ImgInferenceFailed ==
    /\ Done("img2img")
    /\ call["img2img"].fault = "infer"
    /\ call["img2img"].msg = MsgStrOfError
    /\ call["img2img"].cleaned

\* C17: a chat call that returns having appended to chat_history a pair whose
\* first element is the prompt of the request has written the "Human:" line of
\* that turn to chat_history.txt, turns that end in "Generation stopped"
\* included
C17_EveryTurnIsLogged ==
    LET c == call["chat"] IN
    (/\ Done("chat")
     /\ c.exc = ""
     /\ c.entry # <<>>
     /\ c.entry[1].prompt \notin {"None", MsgEnterRequest})
    => c.logged

\* C18: in every step chat_history keeps the entries it has, in their order,
\* and only grows at its end; chat_dir is set only by a chat call at its
\* transcript step; once set it is never changed; and every transcript line
\* and TTS file of a call is written under chat_dir
C18_SessionIsAppendOnly ==
    [][/\ Len(chat_history') >= Len(chat_history)
       /\ SubSeq(chat_history', 1, Len(chat_history)) = chat_history
       /\ chat_dir # NoPath => chat_dir' = chat_dir
       /\ chat_dir' # chat_dir => call["chat"].pc = "transcript"
       /\ call'["chat"].under \subseteq {chat_dir'}]_vars

\* a second turn has put its TTS file under the directory the first turn made
\* a second earlier
C18_SecondTurnSameDirectory ==
    /\ Done("chat")
    /\ Len(chat_history) = 2
    /\ chat_dir = LLMDir(0)
    /\ clock = 1
    /\ call["chat"].path = OutPath("TTS.wav", 1)
    /\ call["chat"].under = {chat_dir}

\* C19: the path an audio call constructs its model from is
\* inputs/audio/audiocraft/<the model name of that call>
C19_ModelResolvedFromOwnName ==
    call["audio"].from # <<>>
    => call["audio"].from = AudioPath(call["audio"].model_name)

\* C20: a call loads its model at most once and calls it at most once,
\* whatever the outcome (a returned error, a stop, an exception), and a call
\* that returns an output file or a reply has called it exactly once
C20_OneInferenceNoRetry ==
    \A d \in Handlers :
        /\ call[d].ninfer <= 1
        /\ call[d].nload <= 1
        /\ Done(d) /\ (call[d].path # NoPath \/ call[d].text \in Replies)
           => call[d].ninfer = 1 /\ call[d].nload = 1

\* an audio call whose generation failed has ended, after one load and one
\* call of the model
C20_FailedAfterOneAttempt ==
    /\ Done("audio")
    /\ call["audio"].fault = "infer"
    /\ call["audio"].exc # ""
    /\ call["audio"].nload = 1
    /\ call["audio"].ninfer = 1

\* C21: a call whose inference call was in progress when stop was signalled,
\* and whose inference call then succeeds, returns "Generation stopped" and
\* no output file, also when a request of another tab began in between
C21_StopDuringInferenceReturnsStopped ==
    \A d \in {"txt2img", "audio"} :
        (/\ Done(d)
         /\ call[d].stopPc = "infer"
         /\ call[d].fault = ""
         /\ call[d].exc = "")
        => (call[d].msg = MsgStopped /\ call[d].path = NoPath /\ call[d].wrote = {})

\* C22: a pipeline constructed by an image dispatcher is of that dispatcher's
\* kind for every model-type tag (a text-to-image class in txt2img, the
\* image-to-image class in img2img, the inpaint class in inpaint), and a tag
\* other than SD, SD2 and SDXL is answered with "Invalid StableDiffusion
\* model type!" and constructs nothing
C22_PipelineOfDispatchersKind ==
    /\ call["txt2img"].loaded
       => call["txt2img"].pipeline \in {"StableDiffusionPipeline", "StableDiffusionXLPipeline"}
    /\ call["img2img"].loaded
       => call["img2img"].pipeline = "StableDiffusionImg2ImgPipeline"
    /\ call["inpaint"].loaded
       => call["inpaint"].pipeline = "StableDiffusionInpaintPipeline"
    /\ \A d \in {"txt2img", "img2img", "inpaint"} :
          Done(d) /\ call[d].model_type \notin {"", "SD", "SD2", "SDXL"}
          => call[d].msg = MsgInvalidSDType /\ ~call[d].loaded /\ call[d].nload = 0

\* C23: every call that returns has the result shape of its dispatcher: a
\* pair from the image, video, extras and audio dispatchers, a tuple of five
\* from the chat dispatcher, on every return path
C23_OneResultShape ==
    \A d \in Handlers :
        Done(d) /\ call[d].exc = ""
        => call[d].ret_len = IF d = "chat" THEN 5 ELSE 2

\* C24: the global audiocraft_model_path is always either None or the path
\* inputs/audio/audiocraft/<name> of a model of the list
C24_ModelPathIsNoneOrAPath ==
    \/ audiocraft_model_path = NonePath
    \/ \E name \in AudioNames \ {""} : audiocraft_model_path = AudioPath(name)

\* C25: the step in which a chat call returns appends exactly one entry to
\* chat_history, on every return path; the step in which a chat call raises,
\* and every other step, leaves chat_history as it is
C25_OneEntryPerReturn ==
    [][IF /\ call["chat"].pc # "done"
          /\ call'["chat"].pc = "done"
          /\ call'["chat"].exc = ""
       THEN Len(chat_history') = Len(chat_history) + 1
       ELSE chat_history' = chat_history]_vars

\* a second chat call, stopped before its speech, has returned, and
\* chat_history holds the entry of the first call and its own
C25_TwoTurnsTwoEntries ==
    /\ Done("chat")
    /\ ncalls = 2
    /\ call["chat"].stopAt # "none"
    /\ call["chat"].msg = MsgStopped
    /\ call["chat"].ret_len = 5
    /\ Len(chat_history) = 2

\* C26: when a chat call with TTS enabled and a reply to speak gets through
\* the transcript write and finds the stop flag set at the checkpoint before
\* the speech, it ends there: the turn is in the transcript, the pair
\* (prompt, reply) is appended to chat_history, the TTS model was not called,
\* no audio file is written, the cleanup ran, and the result carries
\* "Generation stopped" and no audio path
C26_StopBeforeSpeech ==
    [][(/\ call["chat"].pc = "transcript"
        /\ call'["chat"].pc # "transcript"
        /\ stop_signal
        /\ call["chat"].opt
        /\ call["chat"].text \notin {"None", ""}
        /\ call'["chat"].exc = "")
       => LET c == call'["chat"]
              turn == <<[prompt |-> call["chat"].prompt, response |-> call["chat"].text]>>
          IN /\ c.pc = "done"
             /\ c.logged
             /\ c.entry = turn
             /\ chat_history' = chat_history \o turn
             /\ ~c.spoke
             /\ c.wrote = {}
             /\ files' = files
             /\ c.cleaned
             /\ c.msg = MsgStopped
             /\ c.ret_len = 5
             /\ c.path = NoPath]_vars

\* a chat call with TTS enabled has generated its reply, logged the turn and
\* ended at the checkpoint before the speech
C26_StoppedWithReplyLogged ==
    /\ Done("chat")
    /\ call["chat"].opt
    /\ call["chat"].text = "reply"
    /\ call["chat"].stopPc = "transcript"
    /\ call["chat"].msg = MsgStopped
    /\ call["chat"].logged
    /\ ~call["chat"].spoke

\* C27: a call of an image, video, extras or audio dispatcher that returns a
\* path has written exactly one file, the one at that path, and no call of
\* these dispatchers ends having written a file whose path it does not return
C27_OneFileAndItIsReturned ==
    \A d \in Handlers \ {"chat"} :
        Done(d) =>
            /\ call[d].path # NoPath => call[d].wrote = {call[d].path}
            /\ call[d].wrote \subseteq {call[d].path}

====
